---- MODULE Spec2Model ----
(***************************************************************************)
(* Sale processing of the Intelligent Sales system: the stored procedure   *)
(* make_sale and the trigger trg_sale_item_after_insert of db_setup.sql,   *)
(* and the POST /sale route that calls the procedure through the pool.     *)
(*                                                                         *)
(* The database is modelled at row level.  Every row of Sale, Sale_Item    *)
(* and Payment carries the session that inserted it and has not committed  *)
(* yet (field by: {} once committed); a Product row has its committed      *)
(* stock and, per session, the stock that session has written and not yet  *)
(* committed.  Another transaction sees committed rows only.               *)
(* A nullable SQL value is a set: {} is NULL, {v} is the value v.          *)
(***************************************************************************)
EXTENDS Integers, FiniteSets, TLC

\* ------------------------------------------------------------------ bounds
NumProducts == 2
NumCustomers == 1
NumSalespersons == 1
NumConns == 2
NumReqs == 2
MaxQty == 2

\* DECIMAL(10,2): eight digits before the point, two after.
DecimalMaxWhole == 99999999

Products == 1..NumProducts
Customers == 1..NumCustomers
Salespersons == 1..NumSalespersons
Conns == 1..NumConns
Reqs == 1..NumReqs

\* ------------------------------------------------------- nullable values
Null == {}
Some(v) == {v}
IsNull(x) == x = {}
Val(x) == CHOOSE v \in x : TRUE

\* ------------------------------------------------------------ DECIMAL(10,2)
\* A money value is [w |-> whole units, f |-> hundredths].
Money(w, f) == [w |-> w, f |-> f]
DecimalMax == Money(DecimalMaxWhole, 99)
Zero == Money(0, 0)

\* v_price * p_quantity, exact (DECIMAL times INT), before it is stored.
DecMul(m, q) ==
  LET cents == m.f * q
  IN  Money(m.w * q + (cents \div 100), cents % 100)

FitsDecimal(m) == m.w <= DecimalMaxWhole

\* Product.price is DECIMAL(10,2) NOT NULL CHECK (price >= 0).  Two of its
\* values: one with hundredths, and one whose product with a quantity of 2
\* does not fit DECIMAL(10,2).
Prices == {Money(129, 99), Money(60000000, 0)}
InitPrice(p) == IF p = 1 THEN Money(129, 99) ELSE Money(60000000, 0)
\* Product.stock is INT NOT NULL CHECK (stock >= 0).  Product p starts with
\* p units, few enough for the requests to exhaust them.
InitStock(p) == p

\* Payment modes a POST /sale request may carry.
Modes == {"CASH", "UPI"}

\* ------------------------------------------------------------------ state
VARIABLES
  product,   \* Product rows, committed: [price, stock] per product_id
  wstock,    \* per session: the stock it has written and not committed
  sale,      \* Sale rows
  item,      \* Sale_Item rows
  pay,       \* Payment rows
  autoinc,   \* AUTO_INCREMENT counters of Sale, Sale_Item, Payment
  lock,      \* exclusive row lock of each Product row: the holding session
  inTx,      \* per session: a transaction is open
  flag,      \* per session: the user variable @from_make_sale
  pc,        \* per request: the statement it executes next
  args,      \* per request: what the caller passed
  conn,      \* per request: the pooled connection that runs its CALL
  loc,       \* per request: the procedure's DECLAREd variables and the
             \* condition being signalled; for a client's own insert, the
             \* NEW row its trigger works on
  result,    \* per request: what CALL make_sale gave its caller
  resp,      \* per request: the HTTP response of POST /sale
  customer,  \* Customer rows and the table's AUTO_INCREMENT counter
  signup     \* per request of POST /customer/signup: its position, its
             \* body as parsed, its insertId and its response

vars == <<product, wstock, sale, item, pay, autoinc, lock, inTx, flag,
          pc, args, conn, loc, result, resp, customer, signup>>

\* What the sale path and the clients' inserts leave alone.
authVars == <<customer, signup>>

dbVars == <<product, wstock, sale, item, pay, autoinc, lock, inTx, flag>>

\* ------------------------------------------------------------ the tables
Committed(T) == {row \in T : row.by = Null}
\* What session c reads: committed rows and its own uncommitted ones.
Seen(T, c) == {row \in T : row.by \in {Null, Some(c)}}
\* The mark of a row inserted by session c.
By(c) == IF inTx[c] THEN Some(c) ELSE Null

\* The stock of product p as session c reads it.
StockSeen(c, p) ==
  IF IsNull(wstock[c][p]) THEN product[p].stock ELSE Val(wstock[c][p])

NoWrites == [p \in Products |-> Null]

\* Mutant: the locking read has no WHERE on the key and needs every row.
NeedsEveryRow(c, p) == \A o \in Products : lock[o] \in {Null, Some(c)}

\* The requests whose statement holds a shared lock on Product row p: an
\* INSERT INTO Sale_Item that has checked its foreign key to Product and has
\* its trigger still to run.
SharedHolders(p) ==
  {r \in Reqs : pc[r] = "raw_trigger" /\ args[r].product = Some(p)}

\* Session c may read Product row p with a shared lock: nobody else holds its
\* exclusive lock.
CanShare(c, p) == lock[p] \in {Null, Some(c)}

\* Session c may lock or write Product row p: nobody else holds a lock on it,
\* exclusive or shared.
CanLock(c, p) ==
  /\ lock[p] \in {Null, Some(c)}
  /\ \A r \in SharedHolders(p) : conn[r] = Some(c)

\* Mutant: the row lock ends with the statement that took it.
LockReleasedAtOnce(c, p) == lock

\* The lock after a statement of session c touched Product row p: kept to
\* the end of the transaction, or released with the statement (autocommit).
LockAfter(c, p) ==
  IF inTx[c] THEN [lock EXCEPT ![p] = Some(c)] ELSE lock

\* -------------------------------------------------------------- requests
NoLocals == [v_price |-> Null, v_stock |-> Null, v_sale_id |-> Null,
             v_total |-> Null, err |-> "", new_id |-> Null]
NoResult == [state |-> "none", error |-> "", sale_id |-> Null,
             total_amount |-> Null]
NoResp == [http |-> 0, error |-> "", details |-> "", sale_id |-> Null,
           total_amount |-> Null, payment_mode |-> ""]
NoArgs == [via |-> "none", customer |-> Null, product |-> Null,
           quantity |-> Null, salesperson |-> Null]

\* INSERT INTO Customer(name, phone, email) VALUES ('Aarav Sharma',
\* '9876543210', 'aarav@example.com'), ('Neha Verma', '9123456780',
\* 'neha@example.com')
SampleCustomer(n) ==
  IF n = 1
  THEN [customer_id |-> n, name |-> "Aarav Sharma", phone |-> Some("9876543210"),
        email |-> Some("aarav@example.com")]
  ELSE [customer_id |-> n, name |-> "Neha Verma", phone |-> Some("9123456780"),
        email |-> Some("neha@example.com")]

\* The Customer table as the setup script loads it.
SampleCustomers ==
  [rows |-> {SampleCustomer(n) : n \in Customers}, next |-> NumCustomers + 1]

\* A signup request before it arrives.
NoSignup == [pc |-> "idle", name |-> "", email |-> "", phone |-> Null,
             insertId |-> Null, http |-> 0, error |-> "", customer |-> Null]

\* What a caller may pass.  A NULL quantity stands for SQL NULL in a direct
\* call and for a value that is no integer in a request body (the route's
\* Number(...) of it fails Number.isInteger).  The salesperson id is read by
\* one statement only, the INSERT INTO Sale, and is drawn there: NULL here
\* says that it has not been read yet.
ArgSets ==
  [via : {"route", "direct"},
   customer : {Some(n) : n \in 0..NumCustomers},
   product : {Some(n) : n \in 1..(NumProducts + 1)},
   quantity : {Null} \cup {Some(n) : n \in 0..MaxQty},
   salesperson : {Null}]

Init ==
  /\ product = [p \in Products |-> [price |-> InitPrice(p), stock |-> InitStock(p)]]
  /\ wstock = [c \in Conns |-> NoWrites]
  /\ sale = {}
  /\ item = {}
  /\ pay = {}
  /\ autoinc = [sale |-> 1, item |-> 1, pay |-> 1]
  /\ lock = [p \in Products |-> Null]
  /\ inTx = [c \in Conns |-> FALSE]
  /\ flag = [c \in Conns |-> Null]
  /\ pc = [r \in Reqs |-> "idle"]
  /\ args = [r \in Reqs |-> NoArgs]
  /\ conn = [r \in Reqs |-> Null]
  /\ loc = [r \in Reqs |-> NoLocals]
  /\ result = [r \in Reqs |-> NoResult]
  /\ resp = [r \in Reqs |-> NoResp]
  /\ customer = SampleCustomers
  /\ signup = [r \in Reqs |-> NoSignup]

Goto(r, where) == pc' = [pc EXCEPT ![r] = where]
\* An SQLEXCEPTION in the procedure: control passes to the EXIT HANDLER.
Raise(r, msg) ==
  /\ pc' = [pc EXCEPT ![r] = "handler"]
  /\ loc' = [loc EXCEPT ![r].err = msg]

\* res.status(http).json({ error, details })
ErrorResponse(http, error, details) ==
  [NoResp EXCEPT !.http = http, !.error = error, !.details = details]

\* ------------------------------------------------------------ POST /sale
\* Mutant: the quantity check answers with the product check's message.
RouteRepeatsProductMessage(a) ==
  IF IsNull(a.customer) \/ Val(a.customer) <= 0 THEN "Invalid customer_id"
  ELSE IF IsNull(a.product) \/ Val(a.product) <= 0 THEN "Invalid product_id"
  ELSE IF IsNull(a.quantity) \/ Val(a.quantity) <= 0 THEN "Invalid product_id"
  ELSE ""

\* The route's validation of the request body.
RouteRejects(a) ==
  IF IsNull(a.customer) \/ Val(a.customer) <= 0 THEN "Invalid customer_id"
  ELSE IF IsNull(a.product) \/ Val(a.product) <= 0 THEN "Invalid product_id"
  ELSE IF IsNull(a.quantity) \/ Val(a.quantity) <= 0 THEN "Invalid quantity"
  ELSE ""

\* A request arrives: POST /sale with a body, or a direct CALL make_sale.
Submit(r) ==
  /\ pc[r] = "idle"
  /\ \E a \in ArgSets :
       /\ args' = [args EXCEPT ![r] = a]
       /\ IF a.via = "route" /\ RouteRejects(a) # ""
          THEN /\ resp' = [resp EXCEPT ![r] = ErrorResponse(400, RouteRejects(a), "")]
               /\ Goto(r, "done")
          ELSE /\ Goto(r, "call")
               /\ UNCHANGED resp
  /\ UNCHANGED <<dbVars, conn, loc, result, authVars>>

\* ------------------------------------------------------------- make_sale
FreeConns == {c \in Conns : \A r \in Reqs : conn[r] # Some(c)}

\* Mutant: a quantity of zero passes the validation.
QuantityZeroAccepted(q) == IsNull(q) \/ Val(q) < 0

\* IF p_quantity IS NULL OR p_quantity <= 0
QuantityInvalid(q) == IsNull(q) \/ Val(q) <= 0

\* pool.query("CALL make_sale(?,?,?,?)") on a free connection, and the
\* procedure's first statement: the quantity is validated before START
\* TRANSACTION.
CheckQuantity(r) ==
  /\ pc[r] = "call"
  /\ \E c \in FreeConns : conn' = [conn EXCEPT ![r] = Some(c)]
  /\ IF QuantityInvalid(args[r].quantity)
     THEN Raise(r, "Quantity must be greater than 0")
     ELSE Goto(r, "start_tx") /\ UNCHANGED loc
  /\ UNCHANGED <<dbVars, args, result, resp, authVars>>

\* Mutant: the procedure runs its statements without a transaction.
NoTransaction == FALSE

\* START TRANSACTION opens a transaction on the session.
BeginsTransaction == TRUE

StartTransaction(r) ==
  /\ pc[r] = "start_tx"
  /\ inTx' = [inTx EXCEPT ![Val(conn[r])] = BeginsTransaction]
  /\ Goto(r, "select")
  /\ UNCHANGED <<product, wstock, sale, item, pay, autoinc, lock, flag,
                 args, conn, loc, result, resp, authVars>>

\* Mutant: a plain SELECT, which takes no lock.
SelectWithoutLock(c, p) == lock

\* FOR UPDATE: the locking read takes the exclusive row lock.
SelectLock(c, p) == LockAfter(c, p)

\* SELECT price, stock INTO v_price, v_stock ... FOR UPDATE: a locking read
\* of the committed row; it waits while another session holds the row lock.
\* No row: the variables stay NULL (a NOT FOUND condition, no exception).
SelectForUpdate(r) ==
  LET c == Val(conn[r])
      p == Val(args[r].product)
  IN  /\ pc[r] = "select"
      /\ IF p \in Products
         THEN /\ CanLock(c, p)
              /\ lock' = SelectLock(c, p)
              /\ loc' = [loc EXCEPT ![r].v_price = Some(product[p].price),
                                    ![r].v_stock = Some(StockSeen(c, p))]
         ELSE UNCHANGED <<lock, loc>>
      /\ Goto(r, "check")
      /\ UNCHANGED <<product, wstock, sale, item, pay, autoinc, inTx, flag,
                     args, conn, result, resp, authVars>>

\* Mutant: the stock is only checked to be positive.
StockCheckAgainstZero(v_stock, q) == v_stock <= 0
\* Mutant: a quantity equal to the stock is refused.
StockCheckOffByOne(v_stock, q) == v_stock <= q

\* IF v_stock < p_quantity
StockInsufficient(v_stock, q) == v_stock < q

\* Mutant: the procedure does not check that the product was found.
ProductCheckSkipped(v_price) == FALSE

\* IF v_price IS NULL
ProductMissing(v_price) == IsNull(v_price)

\* The two IFs after the locking read.  A NULL v_stock makes the comparison
\* v_stock < p_quantity NULL, which an IF does not take.
CheckItem(r) ==
  /\ pc[r] = "check"
  /\ IF ProductMissing(loc[r].v_price)
     THEN Raise(r, "Invalid product_id")
     ELSE IF /\ ~IsNull(loc[r].v_stock)
             /\ StockInsufficient(Val(loc[r].v_stock), Val(args[r].quantity))
     THEN Raise(r, "Insufficient stock")
     ELSE Goto(r, "ins_sale") /\ UNCHANGED loc
  /\ UNCHANGED <<dbVars, args, conn, result, resp, authVars>>

\* Mutant: the id is stored as passed.
StoredAsPassed(n) == Some(n)

\* NULLIF(p_salesperson_id, 0)
NullIfZero(n) == IF n = 0 THEN Null ELSE Some(n)

\* INSERT INTO Sale ... VALUES (p_customer_id, NULLIF(p_salesperson_id, 0),
\* NOW(), 0); SET v_sale_id = LAST_INSERT_ID().  The AUTO_INCREMENT value is
\* taken before the foreign keys are checked and is not given back.
InsertSale(r) ==
  LET c == Val(conn[r])
      id == autoinc.sale
  IN  /\ pc[r] = "ins_sale"
      /\ autoinc' = [autoinc EXCEPT !.sale = id + 1]
      /\ \E p_salesperson_id \in 0..(NumSalespersons + 1) :
           LET sp == NullIfZero(p_salesperson_id)
           IN  /\ args' = [args EXCEPT ![r].salesperson = Some(p_salesperson_id)]
               /\ IF /\ Val(args[r].customer) \in Customers
                     /\ IsNull(sp) \/ Val(sp) \in Salespersons
                  THEN /\ sale' = sale \cup
                            {[sale_id |-> id,
                              customer_id |-> Val(args[r].customer),
                              salesperson_id |-> sp, total_amount |-> Zero,
                              by |-> By(c)]}
                       /\ loc' = [loc EXCEPT ![r].v_sale_id = Some(id)]
                       /\ Goto(r, "set_flag")
                  ELSE /\ Raise(r, "foreign key constraint fails")
                       /\ UNCHANGED sale
      /\ UNCHANGED <<product, wstock, item, pay, lock, inTx, flag,
                     conn, result, resp, authVars>>

\* SET @from_make_sale := 1
CoordinationFlag == 1

\* Mutant: the procedure does not raise the flag before its insert.
FlagLeftUnset == Null

\* The value of @from_make_sale while make_sale inserts its Sale_Item.
RaisedFlag == Some(CoordinationFlag)

SetFlag(r) ==
  /\ pc[r] = "set_flag"
  /\ flag' = [flag EXCEPT ![Val(conn[r])] = RaisedFlag]
  /\ Goto(r, "ins_item")
  /\ UNCHANGED <<product, wstock, sale, item, pay, autoinc, lock, inTx,
                 args, conn, loc, result, resp, authVars>>

\* A write of Product.stock by session c: into the transaction, or at once
\* into the committed row when the session has no transaction (autocommit).
WriteStock(c, p, v) ==
  IF inTx[c]
  THEN wstock' = [wstock EXCEPT ![c][p] = Some(v)] /\ UNCHANGED product
  ELSE product' = [product EXCEPT ![p].stock = v] /\ UNCHANGED wstock

\* Mutant: the trigger does not look at the flag.
TriggerIgnoresFlag(f) == TRUE
\* Mutant: the trigger's condition never holds.
TriggerNeverFires(f) == FALSE
\* Mutant: the flag is one value shared by all sessions.
TriggerSeesAnyFlag(f) ==
  \A c \in Conns : (IF IsNull(flag[c]) THEN 0 ELSE Val(flag[c])) = 0

\* trg_sale_item_after_insert: IF IFNULL(@from_make_sale, 0) = 0
TriggerFires(f) == (IF IsNull(f) THEN 0 ELSE Val(f)) = 0

\* What the server answers to a stock that would go negative inside the
\* trigger: the CHECK (stock >= 0) of Product where the server enforces it,
\* else the trigger's own SIGNAL.
NegativeStockErrors == {"Check constraint violated", "Stock cannot be negative"}

\* INSERT INTO Sale_Item(sale_id, product_id, quantity, price) VALUES
\* (v_sale_id, p_product_id, p_quantity, v_price), with the AFTER INSERT
\* trigger, which runs inside the statement.  When the trigger fires it
\* updates the Product row (waiting for its lock) and then reads the stock
\* back; a negative stock fails the whole statement.
InsertSaleItem(r) ==
  LET c == Val(conn[r])
      p == Val(args[r].product)
      q == Val(args[r].quantity)
      row == [sale_item_id |-> autoinc.item, sale_id |-> Val(loc[r].v_sale_id),
              product_id |-> p, quantity |-> q, price |-> Val(loc[r].v_price),
              by |-> By(c)]
      ns == StockSeen(c, p) - q
  IN  /\ pc[r] = "ins_item"
      /\ autoinc' = [autoinc EXCEPT !.item = autoinc.item + 1]
      /\ IF p \notin Products \/ IsNull(loc[r].v_price)
         THEN /\ Raise(r, "foreign key constraint fails")
              /\ UNCHANGED <<product, wstock, item, lock>>
         ELSE IF ~TriggerFires(flag[c])
         THEN /\ item' = item \cup {row}
              /\ Goto(r, "clr_flag")
              /\ UNCHANGED <<product, wstock, lock, loc>>
         ELSE /\ CanLock(c, p)
              /\ lock' = LockAfter(c, p)
              /\ IF ns < 0
                 THEN /\ \E msg \in NegativeStockErrors : Raise(r, msg)
                      /\ UNCHANGED <<product, wstock, item>>
                 ELSE /\ WriteStock(c, p, ns)
                      /\ item' = item \cup {row}
                      /\ Goto(r, "clr_flag")
                      /\ UNCHANGED loc
      /\ UNCHANGED <<sale, pay, inTx, flag, args, conn, result, resp, authVars>>

\* SET @from_make_sale := 0
ClearFlag(r) ==
  /\ pc[r] = "clr_flag"
  /\ flag' = [flag EXCEPT ![Val(conn[r])] = Some(0)]
  /\ Goto(r, "upd_stock")
  /\ UNCHANGED <<product, wstock, sale, item, pay, autoinc, lock, inTx,
                 args, conn, loc, result, resp, authVars>>

\* SET stock = stock - p_quantity
NewStock(stock, q) == stock - q

\* UPDATE Product SET stock = stock - p_quantity WHERE product_id =
\* p_product_id.  CHECK (stock >= 0) rejects a negative stock on a server
\* that enforces CHECK constraints; a server that parses and ignores them
\* stores it.
UpdateStock(r) ==
  LET c == Val(conn[r])
      p == Val(args[r].product)
      ns == NewStock(StockSeen(c, p), Val(args[r].quantity))
  IN  /\ pc[r] = "upd_stock"
      /\ CanLock(c, p)
      /\ lock' = LockAfter(c, p)
      /\ \E enforced \in BOOLEAN :
           IF ns < 0 /\ enforced
           THEN /\ Raise(r, "Check constraint violated")
                /\ UNCHANGED <<product, wstock>>
           ELSE /\ WriteStock(c, p, ns)
                /\ Goto(r, "upd_total")
                /\ UNCHANGED loc
      /\ UNCHANGED <<sale, item, pay, autoinc, inTx, flag, args, conn, result, resp, authVars>>

\* v_price * p_quantity
SaleTotal(price, q) == DecMul(price, q)

\* SET v_total = v_price * p_quantity; UPDATE Sale SET total_amount =
\* v_total WHERE sale_id = v_sale_id.  A product that does not fit
\* DECIMAL(10,2) is an error under the strict SQL mode and is stored as the
\* largest DECIMAL(10,2), with a warning, otherwise; the scripts do not set
\* the mode.
FinalizeTotal(r) ==
  LET c == Val(conn[r])
      exact == SaleTotal(Val(loc[r].v_price), Val(args[r].quantity))
      Store(t) ==
        /\ loc' = [loc EXCEPT ![r].v_total = Some(t)]
        /\ sale' = {IF row \in Seen(sale, c) /\ Some(row.sale_id) = loc[r].v_sale_id
                    THEN [row EXCEPT !.total_amount = t] ELSE row : row \in sale}
        /\ Goto(r, "ins_pay")
  IN  /\ pc[r] = "upd_total"
      /\ IF FitsDecimal(exact)
         THEN Store(exact)
         ELSE \E strict \in BOOLEAN :
                IF strict
                THEN Raise(r, "Out of range value") /\ UNCHANGED sale
                ELSE Store(DecimalMax)
      /\ UNCHANGED <<product, wstock, item, pay, autoinc, lock, inTx, flag,
                     args, conn, result, resp, authVars>>

\* Mutant: the payment is not recorded.
NoPaymentRow(id, sale_id, c) == {}

\* VALUES (v_sale_id, 'CASH', 'SUCCESS')
PaymentRow(id, sale_id, c) ==
  {[payment_id |-> id, sale_id |-> sale_id, mode |-> "CASH",
    status |-> "SUCCESS", by |-> By(c)]}

\* INSERT INTO Payment(sale_id, mode, status) VALUES (v_sale_id, 'CASH',
\* 'SUCCESS')
InsertPayment(r) ==
  LET c == Val(conn[r])
  IN  /\ pc[r] = "ins_pay"
      /\ pay' = pay \cup PaymentRow(autoinc.pay, Val(loc[r].v_sale_id), c)
      /\ autoinc' = [autoinc EXCEPT !.pay = autoinc.pay + 1]
      /\ Goto(r, "commit")
      /\ UNCHANGED <<product, wstock, sale, item, lock, inTx, flag,
                     args, conn, loc, result, resp, authVars>>

\* The end of session c's transaction releases every lock it holds.
Unlocked(c) == [p \in Products |-> IF lock[p] = Some(c) THEN Null ELSE lock[p]]

\* COMMIT on session c: its rows and its stock writes become the committed
\* ones.  Without an open transaction there is nothing to commit.
CommitSession(c) ==
  /\ product' = [p \in Products |->
                   IF IsNull(wstock[c][p]) THEN product[p]
                   ELSE [product[p] EXCEPT !.stock = Val(wstock[c][p])]]
  /\ wstock' = [wstock EXCEPT ![c] = NoWrites]
  /\ sale' = {IF row.by = Some(c) THEN [row EXCEPT !.by = Null] ELSE row : row \in sale}
  /\ item' = {IF row.by = Some(c) THEN [row EXCEPT !.by = Null] ELSE row : row \in item}
  /\ pay' = {IF row.by = Some(c) THEN [row EXCEPT !.by = Null] ELSE row : row \in pay}
  /\ lock' = Unlocked(c)
  /\ inTx' = [inTx EXCEPT ![c] = FALSE]

\* Mutant: the handler ends the transaction with COMMIT.
HandlerCommits(c) == CommitSession(c)

\* Mutant: the rollback leaves the session's row locks in place.
RollbackKeepsLocks(c) ==
  /\ wstock' = [wstock EXCEPT ![c] = NoWrites]
  /\ sale' = {row \in sale : row.by # Some(c)}
  /\ item' = {row \in item : row.by # Some(c)}
  /\ pay' = {row \in pay : row.by # Some(c)}
  /\ lock' = lock
  /\ inTx' = [inTx EXCEPT ![c] = FALSE]
  /\ UNCHANGED product

\* ROLLBACK on session c: its uncommitted rows and stock writes are dropped.
\* Without an open transaction there is nothing to roll back.
RollbackSession(c) ==
  /\ wstock' = [wstock EXCEPT ![c] = NoWrites]
  /\ sale' = {row \in sale : row.by # Some(c)}
  /\ item' = {row \in item : row.by # Some(c)}
  /\ pay' = {row \in pay : row.by # Some(c)}
  /\ lock' = Unlocked(c)
  /\ inTx' = [inTx EXCEPT ![c] = FALSE]
  /\ UNCHANGED product

Commit(r) ==
  /\ pc[r] = "commit"
  /\ CommitSession(Val(conn[r]))
  /\ Goto(r, "ret")
  /\ UNCHANGED <<autoinc, flag, args, conn, loc, result, resp, authVars>>

\* Mutant: the procedure returns the newest sale_id of the table, not the
\* one of its own insert.
ReturnsNewestSale(r) ==
  LET out == [state |-> "ok", error |-> "", sale_id |-> Some(autoinc.sale - 1),
              total_amount |-> loc[r].v_total]
  IN  /\ pc[r] = "ret"
      /\ conn' = [conn EXCEPT ![r] = Null]
      /\ result' = [result EXCEPT ![r] = out]
      /\ loc' = [loc EXCEPT ![r] = NoLocals]
      /\ IF args[r].via = "direct"
         THEN Goto(r, "done") /\ UNCHANGED resp
         ELSE Goto(r, "upd_mode") /\ UNCHANGED resp
      /\ UNCHANGED <<dbVars, args, authVars>>

\* SELECT v_sale_id AS sale_id, v_total AS total_amount: the procedure ends
\* and the connection goes back to the pool.  A direct caller is done; the
\* route has its row `out` and goes on to the payment mode.
Return(r) ==
  LET out == [state |-> "ok", error |-> "", sale_id |-> loc[r].v_sale_id,
              total_amount |-> loc[r].v_total]
  IN  /\ pc[r] = "ret"
      /\ conn' = [conn EXCEPT ![r] = Null]
      /\ result' = [result EXCEPT ![r] = out]
      /\ loc' = [loc EXCEPT ![r] = NoLocals]
      /\ IF args[r].via = "direct"
         THEN Goto(r, "done") /\ UNCHANGED resp
         ELSE IF IsNull(out.sale_id) \/ Val(out.sale_id) = 0
         THEN /\ resp' = [resp EXCEPT ![r] = ErrorResponse(500,
                   "Sale created but no output returned from procedure", "")]
              /\ Goto(r, "done")
         ELSE Goto(r, "upd_mode") /\ UNCHANGED resp
      /\ UNCHANGED <<dbVars, args, authVars>>

\* DECLARE EXIT HANDLER FOR SQLEXCEPTION BEGIN ROLLBACK; RESIGNAL; END: the
\* procedure ends with the error and the connection goes back to the pool.
\* The route's catch answers 400 "Sale failed" with the error's message.
Handler(r) ==
  /\ pc[r] = "handler"
  /\ RollbackSession(Val(conn[r]))
  /\ conn' = [conn EXCEPT ![r] = Null]
  /\ result' = [result EXCEPT ![r] =
       [NoResult EXCEPT !.state = "failed", !.error = loc[r].err]]
  /\ resp' = [resp EXCEPT ![r] =
       IF args[r].via = "direct" THEN NoResp
       ELSE ErrorResponse(400, "Sale failed", loc[r].err)]
  /\ loc' = [loc EXCEPT ![r] = NoLocals]
  /\ Goto(r, "done")
  /\ UNCHANGED <<autoinc, flag, args, authVars>>

\* The statements of make_sale that reach the storage engine.
StorageSteps == {"select", "ins_sale", "ins_item", "upd_stock", "upd_total",
                 "ins_pay", "commit"}

\* A storage or transport failure (lock wait timeout, disk, deadlock victim)
\* in one of them is an SQLEXCEPTION like any other.
StorageFailure(r) ==
  /\ pc[r] \in StorageSteps
  /\ Raise(r, "storage failure")
  /\ UNCHANGED <<dbVars, args, conn, result, resp, authVars>>

\* Mutant: the UPDATE has no WHERE and sets the mode of every payment.
UpdatePaymentModeEverywhere(r) ==
  /\ pc[r] = "upd_mode"
  /\ \E payment_mode \in Modes :
       /\ pay' = {IF row.by = Null
                  THEN [row EXCEPT !.mode = payment_mode] ELSE row : row \in pay}
       /\ resp' = [resp EXCEPT ![r] =
            [NoResp EXCEPT !.http = 200, !.sale_id = result[r].sale_id,
                           !.total_amount = result[r].total_amount,
                           !.payment_mode = payment_mode]]
  /\ Goto(r, "done")
  /\ UNCHANGED <<product, wstock, sale, item, autoinc, lock, inTx, flag,
                 args, conn, loc, result, authVars>>

\* pool.query("UPDATE Payment SET mode = ? WHERE sale_id = ?"), autocommit,
\* and the 200 response.
UpdatePaymentMode(r) ==
  /\ pc[r] = "upd_mode"
  /\ \E payment_mode \in Modes :
       /\ pay' = {IF row.by = Null /\ Some(row.sale_id) = result[r].sale_id
                  THEN [row EXCEPT !.mode = payment_mode] ELSE row : row \in pay}
       /\ resp' = [resp EXCEPT ![r] =
            [NoResp EXCEPT !.http = 200, !.sale_id = result[r].sale_id,
                           !.total_amount = result[r].total_amount,
                           !.payment_mode = payment_mode]]
  /\ Goto(r, "done")
  /\ UNCHANGED <<product, wstock, sale, item, autoinc, lock, inTx, flag,
                 args, conn, loc, result, authVars>>

\* That query fails: the route's catch answers 400 "Sale failed".
UpdatePaymentModeFails(r) ==
  /\ pc[r] = "upd_mode"
  /\ resp' = [resp EXCEPT ![r] = ErrorResponse(400, "Sale failed", "storage failure")]
  /\ Goto(r, "done")
  /\ UNCHANGED <<dbVars, args, conn, loc, result, authVars>>

\* ------------------------------------------------------------ the catalog
\* Catalog management changes a price: one autocommit UPDATE of the Product
\* row, which waits for the row lock.
UpdatePrice(p) ==
  /\ lock[p] = Null
  /\ \E m \in Prices \ {product[p].price} :
       product' = [product EXCEPT ![p].price = m]
  /\ UNCHANGED <<wstock, sale, item, pay, autoinc, lock, inTx, flag,
                 pc, args, conn, loc, result, resp, authVars>>

\* ------------------------------------------------- uncoordinated writers
\* An SQL client that bypasses make_sale: on a session of its own choice it
\* runs INSERT INTO Sale_Item(sale_id, product_id, quantity, price) as one
\* autocommit statement.  It names a product and a quantity here and the
\* Sale it refers to when the statement runs.
SubmitInsert(r) ==
  /\ pc[r] = "idle"
  /\ \E c \in FreeConns : conn' = [conn EXCEPT ![r] = Some(c)]
  /\ \E p \in Products : \E q \in 1..MaxQty :
       args' = [args EXCEPT ![r] = [NoArgs EXCEPT !.via = "insert",
                                                  !.product = Some(p),
                                                  !.quantity = Some(q)]]
  /\ Goto(r, "raw_item")
  /\ UNCHANGED <<dbVars, loc, result, resp, authVars>>

\* What the statement gives its caller.
Inserted(id) == [NoResult EXCEPT !.state = "ok", !.sale_id = Some(id)]
Refused(msg) == [NoResult EXCEPT !.state = "failed", !.error = msg]

\* The statement up to its trigger.  The row takes its AUTO_INCREMENT value
\* and the foreign keys are checked: the Sale must exist, and the Product row
\* is read under a shared lock, which waits while another transaction holds
\* that row's exclusive lock and is kept to the end of the statement.  When
\* the trigger's IF is false the statement is complete here.
RawInsertItem(r) ==
  LET c == Val(conn[r])
      p == Val(args[r].product)
      q == Val(args[r].quantity)
      End(res) == /\ result' = [result EXCEPT ![r] = res]
                  /\ conn' = [conn EXCEPT ![r] = Null]
                  /\ Goto(r, "done")
                  /\ UNCHANGED loc
  IN  /\ pc[r] = "raw_item"
      /\ CanShare(c, p)
      /\ autoinc' = [autoinc EXCEPT !.item = autoinc.item + 1]
      /\ IF Committed(sale) = {}
         THEN End(Refused("foreign key constraint fails")) /\ UNCHANGED item
         ELSE \E s \in Committed(sale) :
                IF ~TriggerFires(flag[c])
                THEN /\ item' = item \cup
                          {[sale_item_id |-> autoinc.item, sale_id |-> s.sale_id,
                            product_id |-> p, quantity |-> q,
                            price |-> product[p].price, by |-> By(c)]}
                     /\ End(Inserted(s.sale_id))
                ELSE /\ loc' = [loc EXCEPT ![r].v_sale_id = Some(s.sale_id),
                                           ![r].new_id = Some(autoinc.item)]
                     /\ Goto(r, "raw_trigger")
                     /\ UNCHANGED <<item, conn, result>>
      /\ UNCHANGED <<product, wstock, sale, pay, lock, inTx, flag, args, resp, authVars>>

\* The trigger of that statement: UPDATE Product SET stock = stock -
\* NEW.quantity needs the row's exclusive lock, which waits for every other
\* holder of a lock on the row; then the stock is read back.  A stock below
\* zero fails the statement, by the CHECK of Product or by the trigger's
\* SIGNAL, and a failed statement leaves nothing behind but the
\* AUTO_INCREMENT value it took.
RawTrigger(r) ==
  LET c == Val(conn[r])
      p == Val(args[r].product)
      q == Val(args[r].quantity)
      ns == StockSeen(c, p) - q
      row == [sale_item_id |-> Val(loc[r].new_id), sale_id |-> Val(loc[r].v_sale_id),
              product_id |-> p, quantity |-> q,
              price |-> product[p].price, by |-> By(c)]
  IN  /\ pc[r] = "raw_trigger"
      /\ CanLock(c, p)
      /\ IF ns < 0
         THEN /\ \E msg \in NegativeStockErrors :
                   result' = [result EXCEPT ![r] = Refused(msg)]
              /\ UNCHANGED <<product, wstock, item>>
         ELSE /\ WriteStock(c, p, ns)
              /\ item' = item \cup {row}
              /\ result' = [result EXCEPT ![r] = Inserted(row.sale_id)]
      /\ conn' = [conn EXCEPT ![r] = Null]
      /\ loc' = [loc EXCEPT ![r] = NoLocals]
      /\ Goto(r, "done")
      /\ UNCHANGED <<sale, pay, autoinc, lock, inTx, flag, args, resp, authVars>>

\* ------------------------------------------------------------------ system
Next ==
  \/ \E r \in Reqs : Submit(r)
  \/ \E r \in Reqs : CheckQuantity(r)
  \/ \E r \in Reqs : StartTransaction(r)
  \/ \E r \in Reqs : SelectForUpdate(r)
  \/ \E r \in Reqs : CheckItem(r)
  \/ \E r \in Reqs : InsertSale(r)
  \/ \E r \in Reqs : SetFlag(r)
  \/ \E r \in Reqs : InsertSaleItem(r)
  \/ \E r \in Reqs : ClearFlag(r)
  \/ \E r \in Reqs : UpdateStock(r)
  \/ \E r \in Reqs : FinalizeTotal(r)
  \/ \E r \in Reqs : InsertPayment(r)
  \/ \E r \in Reqs : Commit(r)
  \/ \E r \in Reqs : Return(r)
  \/ \E r \in Reqs : Handler(r)
  \/ \E r \in Reqs : StorageFailure(r)
  \/ \E r \in Reqs : UpdatePaymentMode(r)
  \/ \E r \in Reqs : UpdatePaymentModeFails(r)

\* The sale path alone.
Spec == Init /\ [][Next]_vars

\* The sale path under fair scheduling: the server runs the next statement
\* of every call that is not waiting for a row lock, a connection of the
\* pool serves every queued query, and the route runs its follow-up.  A
\* storage failure may happen or not.
SpecFair ==
  /\ Spec
  /\ \A r \in Reqs :
       WF_vars(CheckQuantity(r) \/ StartTransaction(r) \/ SelectForUpdate(r)
                 \/ CheckItem(r) \/ InsertSale(r) \/ SetFlag(r)
                 \/ InsertSaleItem(r) \/ ClearFlag(r) \/ UpdateStock(r)
                 \/ FinalizeTotal(r) \/ InsertPayment(r) \/ Commit(r)
                 \/ Return(r) \/ Handler(r)
                 \/ UpdatePaymentMode(r) \/ UpdatePaymentModeFails(r))

\* The sale path beside catalog management.
NextCatalog ==
  \/ Next
  \/ \E p \in Products : UpdatePrice(p)

SpecCatalog == Init /\ [][NextCatalog]_vars

\* The sale path beside clients that insert into Sale_Item themselves.
NextBypass ==
  \/ Next
  \/ \E r \in Reqs : SubmitInsert(r)
  \/ \E r \in Reqs : RawInsertItem(r)
  \/ \E r \in Reqs : RawTrigger(r)

SpecBypass == Init /\ [][NextBypass]_vars

\* ---------------------------------------------------- the loaded database
\* The units the setup script's own sale takes from product p.
SampleQty(p) == IF p = NumProducts THEN 1 ELSE 0

\* The database as the setup script leaves it: its sample data ends with
\* calls of make_sale, run on the script's own session, so a committed Sale
\* with its line item and payment exists before the first request, and no
\* pooled session has touched @from_make_sale.
InitSeeded ==
  LET p == NumProducts
  IN  /\ product = [o \in Products |->
                      [price |-> InitPrice(o), stock |-> InitStock(o) - SampleQty(o)]]
      /\ wstock = [c \in Conns |-> NoWrites]
      /\ sale = {[sale_id |-> 1, customer_id |-> 1, salesperson_id |-> Null,
                  total_amount |-> SaleTotal(InitPrice(p), SampleQty(p)),
                  by |-> Null]}
      /\ item = {[sale_item_id |-> 1, sale_id |-> 1, product_id |-> p,
                  quantity |-> SampleQty(p), price |-> InitPrice(p), by |-> Null]}
      /\ pay = {[payment_id |-> 1, sale_id |-> 1, mode |-> "CASH",
                 status |-> "SUCCESS", by |-> Null]}
      /\ autoinc = [sale |-> 2, item |-> 2, pay |-> 2]
      /\ lock = [o \in Products |-> Null]
      /\ inTx = [c \in Conns |-> FALSE]
      /\ flag = [c \in Conns |-> Null]
      /\ pc = [r \in Reqs |-> "idle"]
      /\ args = [r \in Reqs |-> NoArgs]
      /\ conn = [r \in Reqs |-> Null]
      /\ loc = [r \in Reqs |-> NoLocals]
      /\ result = [r \in Reqs |-> NoResult]
      /\ resp = [r \in Reqs |-> NoResp]
      /\ customer = SampleCustomers
      /\ signup = [r \in Reqs |-> NoSignup]

\* The requests of other sessions that stand in the way of the exclusive
\* lock the trigger of r's insert asks for on its Product row: another insert
\* that holds the row's shared lock and asks for the exclusive one itself,
\* or a call of make_sale whose locking read is queued behind r's shared
\* lock.  Each of them waits for r and r waits for each of them.
WaitsForEachOther(r) ==
  {o \in Reqs \ {r} :
     /\ pc[o] \in {"raw_trigger", "select"}
     /\ conn[o] \notin {Null, conn[r]}
     /\ args[o].product = args[r].product}

\* The server breaks such a cycle by failing one statement in it.  Here the
\* client's insert is the victim: it is rolled back whole and its shared
\* lock is gone.  (A call of make_sale chosen as the victim is a storage
\* failure of its locking read.)
DeadlockVictim(r) ==
  /\ pc[r] = "raw_trigger"
  /\ WaitsForEachOther(r) # {}
  /\ result' = [result EXCEPT ![r] = Refused("Deadlock found")]
  /\ conn' = [conn EXCEPT ![r] = Null]
  /\ loc' = [loc EXCEPT ![r] = NoLocals]
  /\ Goto(r, "done")
  /\ UNCHANGED <<dbVars, args, resp, authVars>>

\* The sale path and the clients that insert on their own, on the loaded
\* database.
NextSeeded ==
  \/ NextBypass
  \/ \E r \in Reqs : DeadlockVictim(r)

SpecSeeded == InitSeeded /\ [][NextSeeded]_vars

\* -------------------------------------------------------- customer signup
\* What POST /customer/signup leaves alone.
saleVars == <<dbVars, pc, args, conn, loc, result, resp>>

\* Request bodies: a name of blanks only, one of a single letter between
\* blanks, one long enough; no email, the email of a sample customer in
\* capitals, a new one with and without a leading blank; no phone, the phone
\* of a sample customer, a new one.
BodyNames == {" ", " A ", "Al"}
BodyEmails == {"", "AARAV@example.com", " new@example.com", "new@example.com"}
BodyPhones == {"", "9876543210", "9000000000"}

\* String.prototype.trim and toLowerCase on those values.
Trim(str) ==
  CASE str = " " -> ""
    [] str = " A " -> "A"
    [] str = " new@example.com" -> "new@example.com"
    [] OTHER -> str
ToLowerCase(str) ==
  CASE str = "AARAV@example.com" -> "aarav@example.com"
    [] OTHER -> str

\* name.length, of a trimmed name.
Length(str) == CASE str = "" -> 0 [] str = "A" -> 1 [] OTHER -> 2

\* The route's answer with a status and an error text.
SignupError(req, http, error) ==
  [req EXCEPT !.pc = "done", !.http = http, !.error = error]

\* const name = ..., email = ..., phone = ...; the two validations.
SubmitSignup(r) ==
  /\ signup[r].pc = "idle"
  /\ \E bn \in BodyNames : \E be \in BodyEmails : \E bp \in BodyPhones :
       LET name == Trim(bn)
           email == ToLowerCase(Trim(be))
           phone == IF Trim(bp) = "" THEN Null ELSE Some(Trim(bp))
           req == [NoSignup EXCEPT !.name = name, !.email = email, !.phone = phone]
       IN  signup' = [signup EXCEPT ![r] =
             IF name = "" \/ Length(name) < 2
             THEN SignupError(req, 400, "Name is required (min 2 characters)")
             ELSE IF email = ""
             THEN SignupError(req, 400, "Email is required")
             ELSE [req EXCEPT !.pc = "check"]]
  /\ UNCHANGED <<customer, saleVars>>

\* The Customer rows WHERE email = ? OR phone = ?, which are also the rows
\* whose UNIQUE email or UNIQUE phone a new row with these values collides
\* with; a NULL phone equals nothing.
Existing(email, phone) ==
  {row \in customer.rows :
     \/ row.email = Some(email)
     \/ ~IsNull(phone) /\ row.phone = phone}

\* The rows the route's duplicate check reads.
Found(email, phone) == Existing(email, phone)

\* SELECT customer_id FROM Customer WHERE email = ? OR phone = ?, and the
\* answer 400 when it finds a row.
CheckDuplicate(r) ==
  /\ signup[r].pc = "check"
  /\ signup' = [signup EXCEPT ![r] =
       IF Found(signup[r].email, signup[r].phone) # {}
       THEN SignupError(signup[r], 400, "Email or phone already registered")
       ELSE [signup[r] EXCEPT !.pc = "insert"]]
  /\ UNCHANGED <<customer, saleVars>>

\* INSERT INTO Customer (name, email, phone) VALUES (?, ?, ?), autocommit.
\* A row that collides on a UNIQUE column is refused with a duplicate-entry
\* error, which the route's catch answers with 500 "Signup failed"; the
\* AUTO_INCREMENT value is taken either way.
InsertCustomer(r) ==
  LET id == customer.next
      row == [customer_id |-> id, name |-> signup[r].name,
              phone |-> signup[r].phone, email |-> Some(signup[r].email)]
  IN  /\ signup[r].pc = "insert"
      /\ IF Existing(signup[r].email, signup[r].phone) # {}
         THEN /\ customer' = [customer EXCEPT !.next = id + 1]
              /\ signup' = [signup EXCEPT ![r] =
                   SignupError(signup[r], 500, "Signup failed")]
         ELSE /\ customer' = [rows |-> customer.rows \cup {row}, next |-> id + 1]
              /\ signup' = [signup EXCEPT ![r] =
                   [signup[r] EXCEPT !.pc = "read", !.insertId = Some(id)]]
      /\ UNCHANGED saleVars

\* SELECT ... FROM Customer WHERE customer_id = insertId, and the answer 201
\* with rows[0].
ReadBack(r) ==
  /\ signup[r].pc = "read"
  /\ \E row \in customer.rows :
       /\ Some(row.customer_id) = signup[r].insertId
       /\ signup' = [signup EXCEPT ![r] =
            [signup[r] EXCEPT !.pc = "done", !.http = 201,
                              !.customer = Some(row.customer_id)]]
  /\ UNCHANGED <<customer, saleVars>>

NextSignup ==
  \/ \E r \in Reqs : SubmitSignup(r)
  \/ \E r \in Reqs : CheckDuplicate(r)
  \/ \E r \in Reqs : InsertCustomer(r)
  \/ \E r \in Reqs : ReadBack(r)

\* Concurrent signups on the loaded Customer table.
SpecSignup == Init /\ [][NextSignup]_vars

\* ------------------------------------------------------------ properties
RECURSIVE SumQty(_)
\* The quantities of a set of Sale_Item rows, added up.
SumQty(rows) ==
  IF rows = {} THEN 0
  ELSE LET row == CHOOSE x \in rows : TRUE
       IN  row.quantity + SumQty(rows \ {row})

\* The exact sum of two money values.
DecAdd(a, b) ==
  LET cents == a.f + b.f
  IN  Money(a.w + b.w + (cents \div 100), cents % 100)

RECURSIVE SumAmount(_)
\* SUM(quantity * price) over a set of Sale_Item rows, unbounded.
SumAmount(rows) ==
  IF rows = {} THEN Zero
  ELSE LET row == CHOOSE x \in rows : TRUE
       IN  DecAdd(DecMul(row.price, row.quantity), SumAmount(rows \ {row}))

\* The committed line items of product p, and of sale id.
SoldItems(p) == {row \in Committed(item) : row.product_id = p}
ItemsOf(id) == {row \in Committed(item) : row.sale_id = id}
PaymentsOf(id) == {row \in Committed(pay) : row.sale_id = id}

\* Request r is inside make_sale, between the locking read and the end of
\* its transaction.
UnderLock == {"check", "ins_sale", "set_flag", "ins_item", "clr_flag",
              "upd_stock", "upd_total", "ins_pay", "commit"}
InCall == UnderLock \cup {"start_tx", "select", "handler", "ret"}

\* C1: every product's stock, as any other transaction can read it, is
\* never negative, whatever the interleaving of the sales.
StockNeverNegative == \A p \in Products : product[p].stock >= 0

\* A sale has committed and taken the last unit of a product.
SoldOut ==
  \E p \in Products : product[p].stock = 0 /\ SoldItems(p) # {}

\* Request r takes the step that commits its sale.
Commits(r) == pc[r] = "commit" /\ pc'[r] = "ret"

\* C2: the committed stock changes only in the step that commits a sale, and
\* there the sold product's stock becomes the stock the call read under the
\* lock minus the quantity, once, and no other product's stock changes.
StockDecrementedOnce ==
  [][/\ (\A p \in Products : product'[p].stock = product[p].stock)
        \/ (\E r \in Reqs : Commits(r))
     /\ \A r \in Reqs :
          Commits(r) =>
            \A p \in Products :
              IF args[r].product = Some(p)
              THEN /\ product[p].stock = Val(loc[r].v_stock)
                   /\ product'[p].stock = product[p].stock - Val(args[r].quantity)
              ELSE product'[p].stock = product[p].stock]_vars

\* A sale has committed: its product lost the quantity, the others nothing.
SaleCommitted ==
  \E r \in Reqs :
    /\ pc[r] = "ret"
    /\ \A p \in Products :
         product[p].stock =
           IF args[r].product = Some(p)
           THEN InitStock(p) - Val(args[r].quantity)
           ELSE InitStock(p)

\* What another transaction can read of the sales and the stock.
Visible(s, i, y, pr) ==
  <<Committed(s), Committed(i), Committed(y),
    [p \in Products |-> pr[p].stock]>>

\* C3: no step of a make_sale call other than its COMMIT changes a committed
\* Sale, Sale_Item or Payment row or a committed stock, and a call that ends
\* in the handler leaves none of its uncommitted rows, stock writes or locks
\* behind: a failed call has changed nothing.
FailureLeavesNothing ==
  [][\A r \in Reqs :
       /\ (pc[r] \in InCall \cup {"call"} /\ pc'[r] # pc[r] /\ ~Commits(r))
            => Visible(sale', item', pay', product')
                 = Visible(sale, item, pay, product)
       /\ (pc[r] = "handler" /\ pc'[r] # pc[r])
            => /\ result'[r].state = "failed"
               /\ \A row \in sale' \cup item' \cup pay' : row.by # conn[r]
               /\ wstock'[Val(conn[r])] = NoWrites
               /\ \A p \in Products : lock'[p] # conn[r]]_vars

\* A call failed after it had inserted its sale, line item and payment, and
\* nothing of it is left.
FailedAfterPayment ==
  \E r \in Reqs :
    /\ result[r].state = "failed"
    /\ autoinc.pay > 1
    /\ sale = {} /\ item = {} /\ pay = {}
    /\ \A p \in Products : product[p].stock = InitStock(p)

\* C4: what another transaction can read holds every sale whole: a visible
\* Sale has its line item, its payment and its final total, a visible line
\* item or payment has its Sale, and the visible stock is short of exactly
\* the visible line items.
SaleVisibleWholeOrNot ==
  /\ \A s \in Committed(sale) :
       /\ Cardinality(ItemsOf(s.sale_id)) = 1
       /\ PaymentsOf(s.sale_id) # {}
       /\ s.total_amount # Zero
  /\ \A row \in Committed(item) \cup Committed(pay) :
       \E s \in Committed(sale) : s.sale_id = row.sale_id
  /\ \A p \in Products :
       product[p].stock = InitStock(p) - SumQty(SoldItems(p))

\* A sale is complete inside its transaction, about to commit, and nothing
\* of it can be read yet.
PendingSaleInvisible ==
  \E r \in Reqs :
    /\ pc[r] = "commit"
    /\ \E s \in sale : s.by = conn[r] /\ s.total_amount # Zero
    /\ \E y \in pay : y.by = conn[r]
    /\ wstock[Val(conn[r])][Val(args[r].product)] # Null
    /\ Committed(sale) = {}

\* C5: the calls on one product are served in the order they get its lock.
\* Each reads the initial stock minus the quantities of the calls that
\* succeeded before it, fails with 'Insufficient stock' only when its
\* quantity exceeds that, goes on only when it fits, and the stock ends as
\* the initial stock minus the quantities sold, never negative.
SerializedOnStock ==
  \A p \in Products :
    LET left == InitStock(p) - SumQty(SoldItems(p))
    IN  /\ product[p].stock = left
        /\ left >= 0
        /\ \A r \in Reqs :
             args[r].product = Some(p) =>
               /\ pc[r] = "check" => loc[r].v_stock = Some(left)
               /\ (pc[r] = "handler" /\ loc[r].err = "Insufficient stock")
                    => Val(args[r].quantity) > left
               /\ pc[r] \in UnderLock \ {"check"}
                    => Val(args[r].quantity) <= left
               /\ result[r].state = "ok"
                    => \E i \in SoldItems(p) :
                         /\ Some(i.sale_id) = result[r].sale_id
                         /\ i.quantity = Val(args[r].quantity)

\* Two calls on one product, each within the initial stock, together not:
\* the first has succeeded and the second is refused.
SecondCallRefused ==
  \E r1, r2 \in Reqs : \E p \in Products :
    /\ r1 # r2
    /\ args[r1].product = Some(p) /\ args[r2].product = Some(p)
    /\ result[r1].state = "ok"
    /\ pc[r2] = "handler" /\ loc[r2].err = "Insufficient stock"
    /\ Val(args[r2].quantity) <= InitStock(p)
    /\ Val(args[r1].quantity) + Val(args[r2].quantity) > InitStock(p)

\* Requests r1 and r2 are the two calls, each for one unit, made on a product
\* that had one unit, and both calls have ended.
RaceForLastUnit(p, r1, r2) ==
  /\ r1 # r2
  /\ InitStock(p) = 1
  /\ \A r \in {r1, r2} :
       /\ args[r].product = Some(p)
       /\ args[r].quantity = Some(1)
       /\ result[r].state # "none"
  /\ \A r \in Reqs \ {r1, r2} : args[r].product # Some(p)

\* C6: of two calls for one unit each on a product with one unit, never both
\* succeed; a call is refused for stock only when the other succeeded; when
\* neither fails for another reason (foreign key, storage), exactly one
\* succeeds, leaving stock 0, and the other fails with 'Insufficient stock'.
LastUnitSoldOnce ==
  \A p \in Products : \A r1, r2 \in Reqs :
    RaceForLastUnit(p, r1, r2) =>
      LET ok == {r \in {r1, r2} : result[r].state = "ok"}
          refused == {r \in {r1, r2} : result[r].error = "Insufficient stock"}
      IN  /\ Cardinality(ok) <= 1
          /\ ok # {} => product[p].stock = 0
          /\ refused # {} => ok # {}
          /\ ok \cup refused = {r1, r2}
               => Cardinality(ok) = 1 /\ Cardinality(refused) = 1

\* The race has been decided: one call sold the unit, the other was refused.
LastUnitRaceDecided ==
  \E p \in Products : \E r1, r2 \in Reqs :
    /\ RaceForLastUnit(p, r1, r2)
    /\ result[r1].state = "ok"
    /\ result[r2].error = "Insufficient stock"
    /\ product[p].stock = 0

\* C7: every committed Sale's total_amount is the sum of quantity * price over
\* its Sale_Item rows, and the total a call returned is the persisted one.
TotalIsSumOfItems ==
  /\ \A s \in Committed(sale) :
       s.total_amount = SumAmount(ItemsOf(s.sale_id))
  /\ \A r \in Reqs :
       result[r].state = "ok" =>
         \E s \in Committed(sale) :
           /\ Some(s.sale_id) = result[r].sale_id
           /\ Some(s.total_amount) = result[r].total_amount

\* C8: every committed Sale has exactly one committed Payment row, also after
\* the route has updated the payment mode.
OnePaymentPerSale ==
  \A s \in Committed(sale) : Cardinality(PaymentsOf(s.sale_id)) = 1

\* POST /sale has set the payment mode of a committed sale.
PaymentModeUpdated ==
  \E r \in Reqs : \E s \in Committed(sale) : \E y \in PaymentsOf(s.sale_id) :
    /\ resp[r].http = 200
    /\ resp[r].sale_id = Some(s.sale_id)
    /\ y.mode = "UPI"

\* C9: from the locking read to the end of the transaction the product's
\* price is the one the call read, so the line item carries the price at the
\* moment of the sale; and no step, a later price update included, changes or
\* removes the price of a committed line item.
PriceIsSnapshot ==
  /\ [](\A r \in Reqs :
          (pc[r] \in UnderLock /\ ~IsNull(loc[r].v_price)) =>
            /\ loc[r].v_price = Some(product[Val(args[r].product)].price)
            /\ \A i \in item :
                 Some(i.sale_id) = loc[r].v_sale_id => Some(i.price) = loc[r].v_price)
  /\ [][\A i \in Committed(item) :
          \E j \in Committed(item') :
            j.sale_item_id = i.sale_item_id /\ j.price = i.price]_vars

\* A product's price has changed after a sale of it committed.
PriceChangedAfterSale ==
  \E i \in Committed(item) : i.price # product[i.product_id].price

\* Request r passed a quantity that is NULL or not positive.
BadQuantity(r) == IsNull(args[r].quantity) \/ Val(args[r].quantity) <= 0

\* C10: a call with a NULL or non-positive quantity goes from its first
\* statement to the handler with 'Quantity must be greater than 0' and ends
\* failed with that message, and neither step changes the database or the
\* session: no transaction is open, no row is read, locked or written.  The
\* message is given for no other call, and POST /sale answers such a request
\* 400 without calling the procedure.
BadQuantityTouchesNothing ==
  /\ [](\A r \in Reqs :
          /\ (pc[r] = "handler" /\ loc[r].err = "Quantity must be greater than 0")
               => /\ ~inTx[Val(conn[r])]
                  /\ \A p \in Products : lock[p] # conn[r]
                  /\ \A row \in sale \cup item \cup pay : row.by # conn[r]
                  /\ wstock[Val(conn[r])] = NoWrites
                  /\ IsNull(loc[r].v_price) /\ IsNull(loc[r].v_stock)
          /\ result[r].error = "Quantity must be greater than 0" => BadQuantity(r)
          /\ (args[r].via = "route" /\ BadQuantity(r))
               => /\ pc[r] = "done"
                  /\ resp[r].http = 400
                  /\ result[r].state = "none")
  /\ [][\A r \in Reqs :
          /\ (pc[r] = "call" /\ pc'[r] # "call" /\ BadQuantity(r))
               => /\ pc'[r] = "handler"
                  /\ loc'[r].err = "Quantity must be greater than 0"
                  /\ UNCHANGED dbVars
          /\ (pc[r] = "handler" /\ pc'[r] # "handler" /\ BadQuantity(r))
               => /\ result'[r].state = "failed"
                  /\ result'[r].error = "Quantity must be greater than 0"
                  /\ UNCHANGED dbVars]_vars

\* A call is being refused for its quantity while another call holds the
\* lock of the same product, in the middle of its sale.
RefusedBesideRunningSale ==
  \E r1, r2 \in Reqs :
    /\ r1 # r2
    /\ pc[r1] = "handler"
    /\ loc[r1].err = "Quantity must be greater than 0"
    /\ args[r1].product = args[r2].product
    /\ pc[r2] \in UnderLock
    /\ lock[Val(args[r2].product)] = conn[r2]

\* Request r passed a valid quantity and the id of no product.
MissingProduct(r) ==
  /\ ~IsNull(args[r].product) /\ Val(args[r].product) \notin Products
  /\ ~BadQuantity(r)

\* C11: a call whose product id names no product never inserts a Sale row and
\* never succeeds; the check after the locking read sends it to the handler
\* with 'Invalid product_id', and the handler ends it failed with that
\* message, its transaction rolled back, POST /sale answering 400 with it.
MissingProductRefused ==
  /\ [](\A r \in Reqs :
          MissingProduct(r) =>
            /\ result[r].state # "ok"
            /\ IsNull(loc[r].v_sale_id)
            /\ ~IsNull(conn[r]) => \A row \in sale : row.by # conn[r]
            /\ result[r].state = "failed"
                 => result[r].error \in {"Invalid product_id", "storage failure"})
  /\ [][\A r \in Reqs :
          MissingProduct(r) =>
            /\ (pc[r] = "check" /\ pc'[r] # "check")
                 => pc'[r] = "handler" /\ loc'[r].err = "Invalid product_id"
            /\ (pc[r] = "handler" /\ pc'[r] # "handler"
                  /\ loc[r].err = "Invalid product_id")
                 => /\ result'[r].error = "Invalid product_id"
                    /\ ~inTx'[Val(conn[r])]
                    /\ sale' = sale
                    /\ args[r].via = "route"
                         => /\ resp'[r].http = 400
                            /\ resp'[r].details = "Invalid product_id"]_vars

\* A call on a product that does not exist has failed with 'Invalid
\* product_id' beside a committed sale, the only Sale row there is.
MissingProductFailed ==
  \E r1, r2 \in Reqs :
    /\ MissingProduct(r1)
    /\ result[r1].error = "Invalid product_id"
    /\ result[r2].state = "ok"
    /\ Cardinality(sale) = 1

\* C12: the stock check refuses a call with 'Insufficient stock' exactly when
\* its quantity exceeds the stock it read under the lock.  A quantity equal
\* to the stock goes on, and its commit leaves stock 0; a refused call ends
\* with the stock as it read it and with no Sale row of its own.
RefusedExactlyAboveStock ==
  [][\A r \in Reqs :
       LET q == Val(args[r].quantity)
           p == Val(args[r].product)
       IN  /\ (pc[r] = "check" /\ pc'[r] # "check" /\ ~IsNull(loc[r].v_price))
                => /\ (pc'[r] = "handler" /\ loc'[r].err = "Insufficient stock")
                        <=> q > Val(loc[r].v_stock)
                   /\ pc'[r] = "ins_sale" <=> q <= Val(loc[r].v_stock)
           /\ (Commits(r) /\ loc[r].v_stock = Some(q))
                => product'[p].stock = 0
           /\ (pc[r] = "handler" /\ pc'[r] # "handler"
                 /\ loc[r].err = "Insufficient stock")
                => /\ q > Val(loc[r].v_stock)
                   /\ product'[p].stock = Val(loc[r].v_stock)
                   /\ product' = product
                   /\ \A row \in sale' : row.by # conn[r]
                   /\ Committed(sale') = Committed(sale)
                   /\ result'[r].error = "Insufficient stock"]_vars

\* A call for all the units of a product has succeeded and left stock 0, and
\* a call for one unit more than the stock it read is being refused.
BoundaryBothSides ==
  \E r1, r2 \in Reqs : \E p \in Products :
    /\ args[r1].product = Some(p) /\ args[r2].product = Some(p)
    /\ result[r1].state = "ok"
    /\ args[r1].quantity = Some(InitStock(p))
    /\ product[p].stock = 0
    /\ pc[r2] = "handler" /\ loc[r2].err = "Insufficient stock"
    /\ args[r2].quantity = Some(Val(loc[r2].v_stock) + 1)

\* Request r is an INSERT INTO Sale_Item outside make_sale that completes in
\* this step, on a session whose @from_make_sale is NULL or 0; the Sale it
\* can refer to exists, and the server does not break a deadlock on it.
Uncoordinated(r) ==
  /\ pc[r] \in {"raw_item", "raw_trigger"} /\ pc'[r] = "done"
  /\ result'[r].error # "Deadlock found"
  /\ flag[Val(conn[r])] \in {Null, Some(0)}
  /\ Committed(sale) # {}

\* C13: an insert into Sale_Item made outside make_sale, flag not set, with a
\* quantity within the product's stock lowers that product's stock by the
\* quantity and changes nothing else: it adds its one row, and every other
\* product, the Sale and Payment rows and the locks stay as they were.
UncoordinatedInsertDecrements ==
  [][\A r \in Reqs :
       LET p == Val(args[r].product)
           q == Val(args[r].quantity)
       IN  (Uncoordinated(r) /\ q <= product[p].stock)
             => /\ product'[p].stock = product[p].stock - q
                /\ product'[p].price = product[p].price
                /\ \A o \in Products \ {p} : product'[o] = product[o]
                /\ result'[r].state = "ok"
                /\ item \subseteq item'
                /\ \E row \in item' :
                     /\ item' \ item = {row}
                     /\ row.product_id = p /\ row.quantity = q
                     /\ row.by = Null
                /\ sale' = sale /\ pay' = pay
                /\ wstock' = wstock /\ lock' = lock]_vars

\* A client's own insert has gone through, and the stock of its product is
\* short of the quantities of its line items, the client's included.
UncoordinatedInsertDone ==
  \E r \in Reqs : \E row \in Committed(item) :
    /\ args[r].via = "insert" /\ result[r].state = "ok"
    /\ Some(row.product_id) = args[r].product
    /\ product[row.product_id].stock
         = InitStock(row.product_id) - SumQty(SoldItems(row.product_id))
    /\ product[row.product_id].stock < InitStock(row.product_id)

\* C14: an insert into Sale_Item made outside make_sale whose quantity exceeds
\* the product's stock is aborted with 'Stock cannot be negative', the row
\* not persisted and the stock as before.
OversoldInsertSignalled ==
  [][\A r \in Reqs :
       LET p == Val(args[r].product)
           q == Val(args[r].quantity)
       IN  (Uncoordinated(r) /\ q > product[p].stock)
             => /\ result'[r].state = "failed"
                /\ result'[r].error = "Stock cannot be negative"
                /\ item' = item
                /\ product' = product]_vars

\* Request r is a call of make_sale.
IsCall(r) == args[r].via \in {"route", "direct"}

\* C15: when make_sale inserts its Sale_Item the flag of its session is
\* raised, so the trigger does not fire: the insert changes no stock, and no
\* call of make_sale fails for a negative stock, also beside other calls and
\* beside clients that insert on their own.
GuardSilentForMakeSale ==
  /\ [](\A r \in Reqs :
          IsCall(r) =>
            /\ pc[r] = "ins_item" => flag[Val(conn[r])] \notin {Null, Some(0)}
            /\ pc[r] = "handler" => loc[r].err \notin NegativeStockErrors
            /\ result[r].error \notin NegativeStockErrors)
  /\ [][\A r \in Reqs :
          (pc[r] = "ins_item" /\ pc'[r] # "ins_item")
            => product' = product /\ wstock' = wstock]_vars

\* make_sale has inserted its Sale_Item and no stock has moved yet, while
\* another call is in the middle of its own sale.
InsertedWithoutDecrement ==
  \E r1, r2 \in Reqs :
    /\ r1 # r2
    /\ pc[r1] = "clr_flag"
    /\ \E row \in item : row.by = conn[r1]
    /\ wstock[Val(conn[r1])] = NoWrites
    /\ pc[r2] \in UnderLock

\* The message the caller of a finished sale has in hand: the error of the
\* CALL, or for POST /sale the details of the response, else its error.
Reported(r) ==
  IF args[r].via = "route"
  THEN IF resp[r].details # "" THEN resp[r].details ELSE resp[r].error
  ELSE result[r].error

\* The message for a quantity that is not positive: the procedure's for a
\* direct call, the route's own for POST /sale.
InvalidQuantityMessage(r) ==
  IF args[r].via = "route" THEN "Invalid quantity"
  ELSE "Quantity must be greater than 0"

\* Request r is a sale within the interface's domain (a positive customer
\* id) that has ended.
Ended(r) ==
  /\ IsCall(r) /\ pc[r] = "done"
  /\ ~IsNull(args[r].customer) /\ Val(args[r].customer) > 0

SalesOf(r) ==
  {s \in sale : Some(s.sale_id) \in {loc[r].v_sale_id, result[r].sale_id}}

\* C17: a sale submitted with salesperson id 0 is stored with no salesperson
\* (NULL), and its INSERT INTO Sale passes whatever salespersons exist; a
\* sale with a positive salesperson id is stored with exactly that id.
SalespersonZeroIsNull ==
  /\ [](\A r \in Reqs : \A s \in SalesOf(r) :
          IsCall(r) =>
            /\ args[r].salesperson = Some(0) => s.salesperson_id = Null
            /\ args[r].salesperson \notin {Null, Some(0)}
                 => s.salesperson_id = args[r].salesperson)
  /\ [][\A r \in Reqs :
          (/\ pc[r] = "ins_sale" /\ pc'[r] # "ins_sale"
           /\ args'[r].salesperson = Some(0)
           /\ Val(args[r].customer) \in Customers)
            => /\ pc'[r] = "set_flag"
               /\ \E s \in sale' \ sale :
                    s.salesperson_id = Null /\ Some(s.sale_id) = loc'[r].v_sale_id]_vars

\* Two sales are committed, one passed salesperson id 0 and stored without a
\* salesperson, one passed a salesperson's id and stored with it.
BothSalespersonForms ==
  \E r1, r2 \in Reqs : \E s1, s2 \in Committed(sale) :
    /\ args[r1].salesperson = Some(0) /\ Some(s1.sale_id) = result[r1].sale_id
    /\ s1.salesperson_id = Null
    /\ args[r2].salesperson \in {Some(n) : n \in Salespersons}
    /\ Some(s2.sale_id) = result[r2].sale_id
    /\ s2.salesperson_id = args[r2].salesperson

\* Request r is a call of make_sale on the existing product p.
CallOn(r, p) == IsCall(r) /\ args[r].product = Some(p)

\* C18: from its locking read to its COMMIT or ROLLBACK a call holds the
\* exclusive lock of its product's row, so at most one call at a time is in
\* that stretch for a product; a call passes the locking read only when the
\* lock is free; and a session's lock goes only with the COMMIT or the
\* handler's ROLLBACK of its own call.
OneSaleUnderLock ==
  /\ [](\A p \in Products : \A r \in Reqs :
          CallOn(r, p) =>
            /\ pc[r] \in UnderLock => lock[p] = conn[r]
            /\ (pc[r] = "handler" /\ ~IsNull(loc[r].v_price)) => lock[p] = conn[r]
            /\ \A o \in Reqs \ {r} :
                 ~(CallOn(o, p) /\ pc[r] \in UnderLock /\ pc[o] \in UnderLock))
  /\ [][\A p \in Products : \A r \in Reqs :
          /\ (CallOn(r, p) /\ pc[r] = "select" /\ pc'[r] = "check")
               => lock[p] = Null /\ lock'[p] = conn[r]
          /\ (~IsNull(conn[r]) /\ lock[p] = conn[r] /\ lock'[p] # lock[p])
               => /\ lock'[p] = Null
                  /\ \/ pc[r] = "commit" /\ pc'[r] = "ret"
                     \/ pc[r] = "handler" /\ pc'[r] = "done"]_vars

\* A call is in the middle of its sale and another call on the same product
\* stands at its locking read, which the lock keeps it from taking.
SecondCallWaits ==
  \E r1, r2 \in Reqs : \E p \in Products :
    /\ r1 # r2
    /\ CallOn(r1, p) /\ CallOn(r2, p)
    /\ pc[r1] = "upd_stock" /\ lock[p] = conn[r1]
    /\ pc[r2] = "select" /\ ~CanLock(Val(conn[r2]), p)

\* The next statement of request r's call of make_sale, a storage failure
\* left aside.
MakeSaleStep(r) ==
  \/ StartTransaction(r) \/ SelectForUpdate(r) \/ CheckItem(r)
  \/ InsertSale(r) \/ SetFlag(r) \/ InsertSaleItem(r) \/ ClearFlag(r)
  \/ UpdateStock(r) \/ FinalizeTotal(r) \/ InsertPayment(r)
  \/ Commit(r) \/ Return(r) \/ Handler(r)

\* Another request holds the lock of the product request r is about.
SameProductHeld(r) ==
  \E o \in Reqs \ {r} : \E p \in Products :
    args[r].product = Some(p) /\ ~IsNull(conn[o]) /\ lock[p] = conn[o]

\* C19: a call of make_sale can always take its next step, from START
\* TRANSACTION to the end, unless another transaction holds the lock of the
\* same product: the locks held on other products never make it wait.
OtherProductsNeverBlock ==
  \A r \in Reqs :
    (IsCall(r) /\ pc[r] \in InCall /\ ~SameProductHeld(r))
      => ENABLED MakeSaleStep(r)

\* Two calls on different products are both in the middle of their sales,
\* each holding the lock of its own product, one of them ready to commit.
TwoProductsInParallel ==
  \E r1, r2 \in Reqs : \E p1, p2 \in Products :
    /\ p1 # p2
    /\ CallOn(r1, p1) /\ CallOn(r2, p2)
    /\ pc[r1] = "commit" /\ lock[p1] = conn[r1]
    /\ pc[r2] \in UnderLock /\ lock[p2] = conn[r2]

\* C20: a row lock is held only by the session of a call that is between
\* its locking read and the end of its transaction, so none outlives the
\* COMMIT or ROLLBACK of its call, on success and on every failure; and
\* under fair scheduling the system comes again and again to a state where
\* no call is waiting or running, every call made having ended with success
\* or with an error: a call that waits for a lock gets past it, and every
\* call ends.
LocksReleasedAndCallsEnd ==
  /\ [](\A p \in Products :
          ~IsNull(lock[p]) =>
            \E r \in Reqs :
              /\ conn[r] = lock[p] /\ inTx[Val(conn[r])]
              /\ pc[r] \in UnderLock \cup {"handler"})
  /\ []<>(\A r \in Reqs :
            /\ pc[r] \notin InCall \cup {"call"}
            /\ (pc[r] = "done" /\ IsCall(r)
                  /\ ~(args[r].via = "route" /\ RouteRejects(args[r]) # ""))
                 => result[r].state \in {"ok", "failed"})

\* A call was refused after it had locked its product, and another call on
\* the same product holds the lock now.
LockPassedOnAfterFailure ==
  \E r1, r2 \in Reqs : \E p \in Products :
    /\ r1 # r2
    /\ CallOn(r1, p) /\ CallOn(r2, p)
    /\ result[r1].error = "Insufficient stock"
    /\ pc[r2] \in UnderLock /\ lock[p] = conn[r2]

\* C21: no reachable state holds a cycle of transactions each waiting for a
\* lock another holds: never do two statements of different sessions hold
\* the shared lock of one Product row while each asks for its exclusive lock.
NoLockCycle ==
  \A r1, r2 \in Reqs :
    (r1 # r2 /\ pc[r1] = "raw_trigger" /\ pc[r2] = "raw_trigger"
       /\ conn[r1] # conn[r2])
      => args[r1].product # args[r2].product

\* Call m of make_sale stands between raising and clearing the flag of its
\* session.
FlagRaisedBy(m) ==
  /\ IsCall(m)
  /\ pc[m] \in {"ins_item", "clr_flag"}
  /\ flag[Val(conn[m])] = Some(CoordinationFlag)

\* C22: a client's own insert into Sale_Item that runs on another session
\* while a make_sale call has its flag raised is handled by the trigger all
\* the same: within the stock its quantity is taken from the stock, above
\* it the statement fails for the negative stock and leaves nothing.
GuardedBesideRaisedFlag ==
  [][\A r, m \in Reqs :
       LET p == Val(args[r].product)
           q == Val(args[r].quantity)
       IN  (Uncoordinated(r) /\ m # r /\ FlagRaisedBy(m))
             => IF q <= product[p].stock
                THEN /\ product'[p].stock = product[p].stock - q
                     /\ result'[r].state = "ok"
                     /\ \E row \in item' :
                          /\ item' \ item = {row}
                          /\ row.product_id = p /\ row.quantity = q
                ELSE /\ result'[r].state = "failed"
                     /\ result'[r].error \in NegativeStockErrors
                     /\ product' = product /\ item' = item]_vars

\* A client's insert has gone through and lowered the stock while a call of
\* make_sale on another session had inserted its own line item and not yet
\* cleared its flag: the client's row is the younger of the two.
InsertedBesideRaisedFlag ==
  \E r, m \in Reqs :
    /\ args[r].via = "insert" /\ result[r].state = "ok"
    /\ FlagRaisedBy(m) /\ pc[m] = "clr_flag"
    /\ \E ri \in Committed(item) : \E mi \in item :
         /\ mi.by = conn[m]
         /\ ri.sale_item_id > mi.sale_item_id
         /\ Some(ri.product_id) = args[r].product
         /\ product[ri.product_id].stock
              = InitStock(ri.product_id) - SumQty(SoldItems(ri.product_id))
         /\ product[ri.product_id].stock < InitStock(ri.product_id) - SampleQty(ri.product_id)

\* C23: a pending row either stays pending, becomes committed or is gone,
\* and what is committed stays: no step changes or removes a committed Sale
\* row or Sale_Item row, and of a committed Payment only the mode changes,
\* and only in the step in which POST /sale answers for that very sale.
CommittedIsFinal ==
  [][/\ \A s \in Committed(sale) : s \in sale'
     /\ \A i \in Committed(item) : i \in item'
     /\ \A y \in Committed(pay) :
          \E z \in pay' :
            /\ z = [y EXCEPT !.mode = z.mode]
            /\ \A w \in pay' : w.payment_id = y.payment_id => w = z
            /\ z.mode # y.mode =>
                 \E r \in Reqs :
                   /\ pc[r] = "upd_mode" /\ pc'[r] = "done"
                   /\ result[r].sale_id = Some(y.sale_id)
                   /\ resp'[r].http = 200
                   /\ resp'[r].payment_mode = z.mode
     /\ \A s \in sale \ Committed(sale) :
          \A t \in sale' : t.sale_id = s.sale_id => t.by \in {s.by, Null}
     /\ \A i \in item \ Committed(item) :
          \A t \in item' :
            t.sale_item_id = i.sale_item_id => t \in {i, [i EXCEPT !.by = Null]}
     /\ \A y \in pay \ Committed(pay) :
          \A t \in pay' :
            t.payment_id = y.payment_id => t \in {y, [y EXCEPT !.by = Null]}]_vars

\* POST /sale has answered 200 for a sale whose payment now carries the mode
\* of the answer, another than the one it was created with, while the
\* payment of another committed sale still has the mode of its creation.
ModeChangedOnOneSale ==
  \E r \in Reqs :
    /\ resp[r].http = 200
    /\ \E y \in PaymentsOf(Val(resp[r].sale_id)) :
         /\ y.mode = resp[r].payment_mode
         /\ y.mode # "CASH"
         /\ y.status = "SUCCESS"
    /\ \E z \in Committed(pay) :
         /\ Some(z.sale_id) # resp[r].sale_id
         /\ z.mode = "CASH"

\* Session c runs the part of make_sale in which the flag is raised: the
\* insert into Sale_Item up to the clearing of the flag, or the exit handler
\* of a call that failed there and has not ended yet.
InCoordinatedInsert(c) ==
  \E r \in Reqs :
    /\ conn[r] = Some(c) /\ IsCall(r)
    /\ pc[r] \in {"ins_item", "clr_flag", "handler"}

\* A client's own insert r completes in this step on a session that ran a
\* call of make_sale before and runs none now.
AfterMakeSale(r) ==
  /\ pc[r] \in {"raw_item", "raw_trigger"} /\ pc'[r] = "done"
  /\ result'[r].error # "Deadlock found"
  /\ Committed(sale) # {}
  /\ \E m \in Reqs :
       IsCall(m) /\ pc[m] = "done" /\ result[m].state \in {"ok", "failed"}

\* C24: a session that is not inside make_sale's insert into Sale_Item has
\* its flag at 0 or unset, also after a call that failed; so a client's own
\* insert on a session that ran make_sale before is handled by the trigger:
\* within the stock its quantity is taken from the stock, above it the
\* statement fails and leaves nothing.
FlagClearOutsideInsert ==
  /\ [](\A c \in Conns : ~InCoordinatedInsert(c) => flag[c] \in {Null, Some(0)})
  /\ [][\A r \in Reqs :
          LET p == Val(args[r].product)
              q == Val(args[r].quantity)
          IN  AfterMakeSale(r)
                => IF q <= product[p].stock
                   THEN /\ product'[p].stock = product[p].stock - q
                        /\ result'[r].state = "ok"
                   ELSE /\ result'[r].state = "failed"
                        /\ item' = item /\ product' = product]_vars

\* C25: in every committed state, with calls of make_sale and clients' own
\* inserts interleaved, each product's initial stock minus its stock is the
\* sum of the quantities of its committed line items.
StockMatchesLineItems ==
  \A p \in Products :
    InitStock(p) - product[p].stock = SumQty(SoldItems(p))

\* POST /sale request r has been answered with an error.
AnsweredWithError(r) ==
  /\ args[r].via = "route" /\ pc[r] = "done"
  /\ resp[r].http \notin {0, 200}

\* C26: when POST /sale has answered with an error, a failure of the
\* payment-mode UPDATE after the call included, nothing of that request is
\* persisted: no committed Sale, Sale_Item or Payment row carries the id the
\* call returned.
ErrorResponseLeavesNothing ==
  \A r \in Reqs :
    AnsweredWithError(r) =>
      \/ IsNull(result[r].sale_id)
      \/ /\ \A s \in Committed(sale) : Some(s.sale_id) # result[r].sale_id
         /\ ItemsOf(Val(result[r].sale_id)) = {}
         /\ PaymentsOf(Val(result[r].sale_id)) = {}

\* Call r of make_sale has returned its result row.
Succeeded(r) == IsCall(r) /\ result[r].state = "ok"

\* C27: under any interleaving of calls of make_sale, the sale_id a
\* successful call returns is returned by no other call and names the
\* committed Sale of that call: its customer, one line item with its product
\* and quantity, and the total the call returned.
ReturnedIdIsOwnSale ==
  /\ \A r1, r2 \in Reqs :
       (r1 # r2 /\ Succeeded(r1) /\ Succeeded(r2))
         => result[r1].sale_id # result[r2].sale_id
  /\ \A r \in Reqs :
       Succeeded(r) =>
         /\ ~IsNull(result[r].sale_id)
         /\ \E s \in Committed(sale) :
              /\ Some(s.sale_id) = result[r].sale_id
              /\ Some(s.customer_id) = args[r].customer
              /\ Some(s.total_amount) = result[r].total_amount
              /\ \A t \in Committed(sale) : t.sale_id = s.sale_id => t = s
              /\ \E i \in ItemsOf(s.sale_id) :
                   /\ ItemsOf(s.sale_id) = {i}
                   /\ Some(i.product_id) = args[r].product
                   /\ Some(i.quantity) = args[r].quantity

\* Two calls whose statements interleaved have both succeeded, each with its
\* own sale_id, for different products, and the call that inserted its Sale
\* first returned last.
TwoSalesReturned ==
  \E r1, r2 \in Reqs :
    /\ r1 # r2 /\ Succeeded(r1) /\ Succeeded(r2)
    /\ args[r1].product # args[r2].product
    /\ Val(result[r1].sale_id) < Val(result[r2].sale_id)
    /\ \E y1 \in PaymentsOf(Val(result[r1].sale_id)) :
         \E y2 \in PaymentsOf(Val(result[r2].sale_id)) :
           y1.payment_id > y2.payment_id

\* C28: a call of make_sale persists the exact price * quantity as the total
\* of its sale or fails and is rolled back: no committed Sale carries a total
\* other than the product of its line item, and none a product that does not
\* fit DECIMAL(10,2).
TotalExactOrRolledBack ==
  \A s \in Committed(sale) : \A i \in ItemsOf(s.sale_id) :
    /\ FitsDecimal(SaleTotal(i.price, i.quantity))
    /\ s.total_amount = SaleTotal(i.price, i.quantity)

\* Some Customer row carries email e.
Registered(e) == \E row \in customer.rows : row.email = Some(e)

\* C29: under any interleaving of signups no two Customer rows share an
\* email, and a signup whose email is registered when its duplicate check or
\* its insert runs, by a concurrent request in between included, ends there
\* with 400 'already registered' and adds no row.
SignupDuplicateRefused ==
  /\ [](\A a, b \in customer.rows :
          (a.email = b.email /\ ~IsNull(a.email)) => a = b)
  /\ [][\A r \in Reqs :
          (/\ signup[r].pc \in {"check", "insert"}
           /\ signup'[r] # signup[r]
           /\ Registered(signup[r].email))
            => /\ signup'[r].pc = "done"
               /\ signup'[r].http = 400
               /\ signup'[r].error = "Email or phone already registered"
               /\ customer'.rows = customer.rows]_vars

====
